---- MODULE Spec2Model ----
\* nextWeb 0.1.0 (src/src/main.rs): a thread-per-server HTTP front-end that
\* serves static files or relays requests to one backend.
\*
\* Text is modelled as a sequence of symbols.  A symbol is one byte/character
\* ("\r", "\n", " ", "/", ...) or an atomic token that no operation of the program
\* looks inside ("GET", "Host:", "Server:", "HTTP/1.1", "200", ...).
EXTENDS Integers, Sequences, FiniteSets, TLC

VARIABLES
    call,      \* a single invocation of one function: its arguments and result
    toml,      \* config.toml on disk: whether it parses, and the servers it lists
    proc,      \* the process: "running" or "exited"
    main,      \* the main thread: [pc, idx]
    thr,       \* thr[s]: position of the thread of server s
    file,      \* file[s]: what the configuration file of server s holds on disk
    cfg,       \* cfg[s]: the ServerConfig loaded by start_server (server_config)
    pending,   \* pending[s]: the accept queue of server s: for each connection
               \* waiting in it, the bytes its client sends
    accepted,  \* accepted[s]: number of connections accepted so far by server s
    conn,      \* conn[s]: the connection in flight on server s (locals of handle_client)
    log        \* log[s]: the access-log records printed by server s, in order

vars == <<call, toml, proc, main, thr, file, cfg, pending, accepted, conn, log>>

srvVars == <<toml, proc, main, thr, file, cfg, pending, accepted, conn, log>>

----------------------------------------------------------------------------
\* Bounds of the model.

\* longest byte buffer given to extract_path
MaxBuf == 4

\* longest text given to the header rewriting of the proxy
MaxText == 5

\* longest path given to handle_static_request
MaxPath == 3

\* connections waiting for the server, where one server runs
MaxConns == 2

\* connections waiting in all, where two servers run
MaxConnsTwo == 2

\* capacity of the request buffer of handle_client, scaled down from 1024
BufSize == 12

\* capacity of the response buffer of handle_proxy_request, scaled down from 8192
RespBufSize == 14

----------------------------------------------------------------------------
\* Symbols.

SP == " "
CR == "\r"
LF == "\n"
TAB == "\t"
NUL == "NUL"
\* a byte that is not valid UTF-8 on its own, and what from_utf8_lossy makes of it
BadByte == "xFF"
Replacement == "U+FFFD"

CRLF == <<CR, LF>>

Some(v) == [some |-> TRUE, val |-> v]
None == [some |-> FALSE, val |-> 0]

\* all sequences over S of length at most n
SeqsUpTo(S, n) == UNION {[1..k -> S] : k \in 0..n}

\* slice s[a..b] of Rust: 0-based, a inclusive, b exclusive
Slice(s, a, b) == SubSeq(s, a + 1, b)

\* slice s[a..]
SliceFrom(s, a) == SubSeq(s, a + 1, Len(s))

\* iter().position(|&b| b == x): 0-based index of the first x
Position(s, x) ==
    IF \E i \in 1..Len(s) : s[i] = x
    THEN Some((CHOOSE i \in 1..Len(s) : s[i] = x /\ \A j \in 1..(i - 1) : s[j] # x) - 1)
    ELSE None

\* str::starts_with
StartsWith(s, p) == Len(s) >= Len(p) /\ SubSeq(s, 1, Len(p)) = p

\* char::is_whitespace on the symbols of the model (NUL is not whitespace)
IsWhitespace(c) == c \in {SP, TAB, CR, LF}

RECURSIVE TrimStart(_)
TrimStart(s) ==
    IF s # <<>> /\ IsWhitespace(Head(s)) THEN TrimStart(Tail(s)) ELSE s

RECURSIVE TrimEnd(_)
TrimEnd(s) ==
    IF s # <<>> /\ IsWhitespace(s[Len(s)]) THEN TrimEnd(SubSeq(s, 1, Len(s) - 1)) ELSE s

\* str::trim
Trim(s) == TrimEnd(TrimStart(s))

\* String::from_utf8_lossy: valid bytes are kept, an invalid byte becomes U+FFFD
from_utf8_lossy(bytes) ==
    [i \in 1..Len(bytes) |-> IF bytes[i] = BadByte THEN Replacement ELSE bytes[i]]

----------------------------------------------------------------------------
\* extract_path (main.rs 77-92)

\* the slice ends one byte early
extract_path_short_slice(buffer) ==
    LET first == Position(buffer, SP) IN
    IF first.some
    THEN LET index == first.val
             second == Position(SliceFrom(buffer, index + 1), SP)
         IN  IF second.some
             THEN Trim(from_utf8_lossy(Slice(buffer, index + 1, index + second.val)))
             ELSE <<"/">>
    ELSE <<"/">>

extract_path(buffer) ==
    LET first == Position(buffer, SP) IN
    IF first.some
    THEN LET index == first.val
             second == Position(SliceFrom(buffer, index + 1), SP)
         IN  IF second.some
             THEN LET second_space == second.val
                  IN  Trim(from_utf8_lossy(Slice(buffer, index + 1, index + 1 + second_space)))
             ELSE <<"/">>
    ELSE <<"/">>

----------------------------------------------------------------------------
\* str::lines and [String]::join, as handle_proxy_request uses them.

\* str::split_inclusive('\n'): pieces that end with the separator, except
\* possibly the last; the empty text has no piece
RECURSIVE SplitInclusive(_)
SplitInclusive(s) ==
    IF s = <<>> THEN <<>>
    ELSE LET p == Position(s, LF) IN
         IF p.some
         THEN <<Slice(s, 0, p.val + 1)>> \o SplitInclusive(SliceFrom(s, p.val + 1))
         ELSE <<s>>

\* a piece without its "\n" or "\r\n"; a piece that has no "\n" is kept whole
StripLineEnding(piece) ==
    IF piece # <<>> /\ piece[Len(piece)] = LF
    THEN LET l == SubSeq(piece, 1, Len(piece) - 1) IN
         IF l # <<>> /\ l[Len(l)] = CR THEN SubSeq(l, 1, Len(l) - 1) ELSE l
    ELSE piece

\* str::lines
Lines(s) ==
    LET pieces == SplitInclusive(s) IN
    [i \in 1..Len(pieces) |-> StripLineEnding(pieces[i])]

\* join(sep)
RECURSIVE Join(_, _)
Join(ls, sep) ==
    IF ls = <<>> THEN <<>>
    ELSE IF Len(ls) = 1 THEN ls[1]
    ELSE ls[1] \o sep \o Join(Tail(ls), sep)

\* str::trim_start_matches(p): every leading repetition of p is removed
RECURSIVE TrimStartMatches(_, _)
TrimStartMatches(s, p) ==
    IF p # <<>> /\ StartsWith(s, p) THEN TrimStartMatches(SliceFrom(s, Len(p)), p) ELSE s

----------------------------------------------------------------------------
\* handle_proxy_request: the rewriting of the request (main.rs 154-169)

\* the lines are rejoined with a bare "\n"
ModifyHostJoinLF(proxy_config, request) ==
    IF proxy_config.modify_host
    THEN LET host_header == <<"Host:", SP>> \o proxy_config.header_host
             ls == Lines(request)
         IN  Join([i \in 1..Len(ls) |->
                     IF StartsWith(ls[i], <<"Host:">>) THEN host_header ELSE ls[i]],
                  <<LF>>)
    ELSE request

ModifyHost(proxy_config, request) ==
    IF proxy_config.modify_host
    THEN LET host_header == <<"Host:", SP>> \o proxy_config.header_host
             ls == Lines(request)
         IN  Join([i \in 1..Len(ls) |->
                     IF StartsWith(ls[i], <<"Host:">>) THEN host_header ELSE ls[i]],
                  CRLF)
    ELSE request

\* handle_proxy_request: the rewriting of the response (main.rs 183-204)

IsServerLine(line) == StartsWith(line, <<"Server:">>)

ModifyServer(proxy_config, response) ==
    IF proxy_config.modify_server
    THEN LET ls == Lines(response)
             original_server ==
                 IF \E i \in 1..Len(ls) : IsServerLine(ls[i])
                 THEN LET k == CHOOSE i \in 1..Len(ls) :
                                   /\ IsServerLine(ls[i])
                                   /\ \A j \in 1..(i - 1) : ~IsServerLine(ls[j])
                      IN  Trim(TrimStartMatches(ls[k], <<"Server:">>))
                 ELSE <<"unknown">>
             new_server_header ==
                 <<"Server:", SP, "nextWeb(">> \o original_server \o <<")/0.1.0">>
         IN  Join([i \in 1..Len(ls) |->
                     IF IsServerLine(ls[i]) THEN new_server_header ELSE ls[i]],
                  CRLF)
    ELSE response

----------------------------------------------------------------------------
\* The fixed responses.

Resp404 == <<"HTTP/1.1", SP, "404", SP, "Not Found", CR, LF, CR, LF, "404", SP, "Not Found">>

Resp500 ==
    <<"HTTP/1.1", SP, "500", SP, "Internal Server Error", CR, LF, CR, LF,
      "500", SP, "Internal Server Error">>

Resp500NoStatic == Resp500 \o <<":", SP, "Static configuration is missing">>

Resp500NoProxy == Resp500 \o <<":", SP, "Proxy configuration is missing">>

Resp501 ==
    <<"HTTP/1.1", SP, "501", SP, "Not Implemented", CR, LF, CR, LF,
      "501", SP, "Not Implemented">>

Resp502 ==
    <<"HTTP/1.1", SP, "502", SP, "Bad Gateway", CR, LF, CR, LF, "502", SP, "Bad Gateway">>

Head200 ==
    <<"HTTP/1.1", SP, "200", SP, "OK", CR, LF,
      "Server:", SP, "nextWeb/0.1.0", CR, LF,
      "Content-Type:", SP, "text/html; charset=utf-8", CR, LF,
      CR, LF>>

----------------------------------------------------------------------------
\* The file system, as File::open and read_to_string see it (main.rs 110, 113).

Absent == [kind |-> "absent", contents |-> <<>>]
\* a file that opens but does not read as text: a directory, bytes that are not UTF-8
Unreadable == [kind |-> "unreadable", contents |-> <<>>]
Text(b) == [kind |-> "text", contents |-> b]

FileBodies == {<<"b1">>, <<"b2", LF>>}

FileStates == {Absent, Unreadable} \cup {Text(b) : b \in FileBodies}

Webroot == <<"www">>
IndexName == <<"index.html">>

\* the regular files a file system of the model may hold, by resolved name
KnownFiles == {Webroot \o <<"/">> \o IndexName, Webroot \o <<"/", "a">>}

\* root: the webroot directory exists; without it no file below it exists
FileSystems ==
    {[root |-> r, files |-> f] : r \in BOOLEAN, f \in [KnownFiles -> FileStates]}
    \ {fs \in [root : {FALSE}, files : [KnownFiles -> FileStates]] :
          \E k \in KnownFiles : fs.files[k] # Absent}

\* path resolution of the operating system: repeated separators count as one
RECURSIVE Normalize(_)
Normalize(p) ==
    IF Len(p) < 2 THEN p
    ELSE IF p[1] = "/" /\ p[2] = "/" THEN Normalize(Tail(p))
    ELSE <<p[1]>> \o Normalize(Tail(p))

\* what opening file_path finds
Lookup(fs, file_path) ==
    LET n == Normalize(file_path) IN
    IF n \in KnownFiles THEN fs.files[n]
    ELSE IF n \in {Webroot, Webroot \o <<"/">>} THEN (IF fs.root THEN Unreadable ELSE Absent)
    ELSE Absent

----------------------------------------------------------------------------
\* handle_static_request (main.rs 101-131)

\* the index file is not substituted for "/"
static_file_path_no_index(static_config, path) ==
    static_config.webroot \o <<"/">> \o path

\* file_path (main.rs 103-109)
static_file_path(static_config, path) ==
    LET actual_path == IF path = <<"/">> THEN static_config.index ELSE path
    IN  static_config.webroot \o <<"/">> \o actual_path

\* the response for what the open and the read returned (main.rs 110-130)
static_response(found) ==
    IF found.kind = "absent" THEN Resp404
    ELSE IF found.kind = "unreadable" THEN Resp500
    ELSE Head200 \o found.contents

handle_static_request(static_config, path, fs) ==
    static_response(Lookup(fs, static_file_path(static_config, path)))

----------------------------------------------------------------------------
\* handle_proxy_request: the backend address (main.rs 139-150)

IpLiterals == {"127.0.0.1", "10.0.0.2"}

\* str::parse::<u16>
ParseU16(str) ==
    IF str = <<"8080">> THEN Some(8080)
    ELSE IF str = <<"80">> THEN Some(80)
    ELSE IF str = <<"443">> THEN Some(443)
    ELSE None

\* str::split_once(':'): at the first colon
SplitOnce(s) ==
    LET p == Position(s, ":") IN
    IF p.some THEN Some(<<Slice(s, 0, p.val), SliceFrom(s, p.val + 1)>>) ELSE None

\* backend_host and backend_port (main.rs 140-146)
backend_host_port(backend) ==
    LET backend_url == TrimStartMatches(backend, <<"http://">>)
        split == SplitOnce(backend_url)
        backend_host == IF split.some THEN split.val[1] ELSE backend_url
        backend_port_str == IF split.some THEN split.val[2] ELSE <<"80">>
        parsed == ParseU16(backend_port_str)
    IN  [host |-> backend_host, port |-> IF parsed.some THEN parsed.val ELSE 80]

\* an IPv6 literal in brackets, as SocketAddr wants it
Ip6Literals == {<<"[", ":", ":", "1", "]">>}

\* format!("{}:{}").parse::<SocketAddr>() (main.rs 149-150): only an IP literal
\* parses; None is where expect panics
socket_addr(backend) ==
    LET hp == backend_host_port(backend) IN
    IF (Len(hp.host) = 1 /\ hp.host[1] \in IpLiterals) \/ hp.host \in Ip6Literals
    THEN Some(hp) ELSE None

----------------------------------------------------------------------------
\* handle_client: the status code of a response (main.rs 253-265)

HasStatus(response, code) == StartsWith(response, <<"HTTP/1.1", SP, code>>)

\* the 500 branch is missing
status_code_no_500(response) ==
    IF HasStatus(response, "200") THEN 200
    ELSE IF HasStatus(response, "404") THEN 404
    ELSE IF HasStatus(response, "501") THEN 501
    ELSE IF HasStatus(response, "502") THEN 502
    ELSE 0

status_code(response) ==
    IF HasStatus(response, "200") THEN 200
    ELSE IF HasStatus(response, "404") THEN 404
    ELSE IF HasStatus(response, "500") THEN 500
    ELSE IF HasStatus(response, "501") THEN 501
    ELSE IF HasStatus(response, "502") THEN 502
    ELSE 0

----------------------------------------------------------------------------
\* Configurations (main.rs 9-54).

Servers == {"s1", "s2"}

Types == {"static", "proxy", "fastcgi"}

StaticConfigs == {[webroot |-> Webroot, index |-> IndexName]}

\* an IP literal with a port, and a host name
Backends == {<<"http://", "127.0.0.1", ":", "8080">>, <<"localhost", ":", "8080">>}

ProxyConfigs ==
    [backend : Backends, modify_host : BOOLEAN, header_host : {<<"example.com">>},
     modify_server : BOOLEAN]

Options(S) == {None} \cup {Some(v) : v \in S}

\* ServerConfig; the bind address plays no part in the handling of a connection
ServerConfigs ==
    [server_type : Types, static_config : Options(StaticConfigs),
     proxy_config : Options(ProxyConfigs)]

NoConfig == [server_type |-> "", static_config |-> None, proxy_config |-> None]

\* a per-server configuration file: one that parses, or one that does not
Unparsable == [ok |-> FALSE, config |-> NoConfig]
Parsable(c) == [ok |-> TRUE, config |-> c]

\* the configurations used where two servers run side by side: one section
\* at most, and both rewritings when the section is the proxy's
FewConfigs ==
    {c \in ServerConfigs :
        /\ c.static_config.some => c.server_type = "static"
        /\ c.proxy_config.some => c.server_type = "proxy"
        /\ c.proxy_config.some =>
              c.proxy_config.val.modify_host /\ c.proxy_config.val.modify_server}

----------------------------------------------------------------------------
\* What the peers send.

\* the bytes a client has sent when handle_client reads
ShortRequest == <<"GET", SP, "/", SP, "HTTP/1.1">>

ClientData ==
    {ShortRequest,
     <<"GET", SP, "/", "a", SP, "HTTP/1.1", CR, LF, "Host:", SP, "h", CR, LF, CR, LF>>}

\* the bytes a backend has sent when handle_proxy_request reads
BackendData ==
    {<<>>,
     <<"HTTP/1.1", SP, "200", SP, "OK", CR, LF, "Server:", SP, "nginx", CR, LF, CR, LF, "hi">>,
     <<"HTTP/1.1", SP, "301", SP, "Moved", CR, LF, CR, LF>>,
     <<"HTTP/1.0", SP, "200", SP, "OK", LF, LF, "hi">>,
     <<"HTTP/1.1", SP, "404", SP, "Not Found", CR, LF, CR, LF>>,
     <<"HTTP/1.1", SP, "200", SP, "OK", CR, LF, CR, LF, BadByte>>}

\* read(&mut buffer): at most cap bytes arrive
Take(data, cap) == SubSeq(data, 1, IF Len(data) < cap THEN Len(data) ELSE cap)

\* the buffer [0; BufSize] after n bytes were read into it
ZeroFilled(data, cap) == [i \in 1..cap |-> IF i <= Len(data) THEN data[i] ELSE NUL]

----------------------------------------------------------------------------
\* State of the server machine.

NoCall == [fn |-> "none", args |-> <<>>, done |-> FALSE, ret |-> <<>>]

\* the locals of handle_client and handle_proxy_request, and what the handling
\* of the connection has done so far: read, backend and send hold the result of
\* the last call on the client stream, the backend stream and the client stream
NoConn ==
    [id |-> 0, client |-> <<>>, read |-> "none", buffer |-> <<>>, request |-> <<>>, path |-> <<>>,
     response |-> <<>>, opens |-> 0, connects |-> 0, writes |-> 0, reads |-> 0,
     backend |-> "none", sent |-> <<>>, received |-> <<>>, send |-> "none", written |-> <<>>]

InitServers(list, files, queues) ==
    /\ call = NoCall
    /\ toml \in {[ok |-> TRUE, servers |-> list], [ok |-> FALSE, servers |-> <<>>]}
    /\ proc = "running"
    /\ main = [pc |-> "load_config", idx |-> 1]
    /\ thr = [s \in Servers |-> "unspawned"]
    /\ file \in [Servers -> files]
    /\ \A s \in Servers : (\A i \in 1..Len(toml.servers) : toml.servers[i] # s) =>
                             file[s] = Unparsable
    /\ cfg = [s \in Servers |-> NoConfig]
    /\ pending \in queues
    /\ \A s \in Servers : ~file[s].ok => pending[s] = <<>>
    /\ accepted = [s \in Servers |-> 0]
    /\ conn = [s \in Servers |-> NoConn]
    /\ log = [s \in Servers |-> <<>>]

\* one server, any configuration file, MaxConns connections waiting for it
Init ==
    /\ InitServers(<<"s1">>, {Unparsable} \cup {Parsable(c) : c \in ServerConfigs},
                   [Servers -> {<<>>} \cup [1..MaxConns -> ClientData]])
    /\ \A s \in Servers : file[s].ok => pending[s] # <<>>

\* two servers, at most MaxConnsTwo connections waiting for the two together
InitTwo ==
    /\ InitServers(<<"s1", "s2">>, {Unparsable} \cup {Parsable(c) : c \in FewConfigs},
                   [Servers -> SeqsUpTo({ShortRequest}, MaxConnsTwo)])
    /\ Len(pending["s1"]) + Len(pending["s2"]) <= MaxConnsTwo

----------------------------------------------------------------------------
\* main (main.rs 295-313)

Running == proc = "running"

\* load_config("config.toml") returns (main.rs 298)
MainLoadConfig ==
    /\ Running /\ main.pc = "load_config" /\ toml.ok
    /\ main' = [pc |-> "spawn", idx |-> 1]
    /\ UNCHANGED <<call, toml, proc, thr, file, cfg, pending, accepted, conn, log>>

\* load_config panics in the main thread: the process ends (main.rs 58-61)
MainLoadConfigPanic ==
    /\ Running /\ main.pc = "load_config" /\ ~toml.ok
    /\ main' = [main EXCEPT !.pc = "panicked"]
    /\ proc' = "exited"
    /\ UNCHANGED <<call, toml, thr, file, cfg, pending, accepted, conn, log>>

\* thread::spawn for the next server of the list (main.rs 302-307)
MainSpawn ==
    /\ Running /\ main.pc = "spawn" /\ main.idx <= Len(toml.servers)
    /\ thr' = [thr EXCEPT ![toml.servers[main.idx]] = "load"]
    /\ main' = IF main.idx = Len(toml.servers)
               THEN [pc |-> "join", idx |-> 1]
               ELSE [main EXCEPT !.idx = @ + 1]
    /\ UNCHANGED <<call, toml, proc, file, cfg, pending, accepted, conn, log>>

\* handle.join().unwrap() on a thread that panicked: main panics and the
\* process ends (main.rs 310-312); a server thread never returns otherwise
MainJoinPanic ==
    /\ Running /\ main.pc = "join" /\ main.idx <= Len(toml.servers)
    /\ thr[toml.servers[main.idx]] = "panicked"
    /\ main' = [main EXCEPT !.pc = "panicked"]
    /\ proc' = "exited"
    /\ UNCHANGED <<call, toml, thr, file, cfg, pending, accepted, conn, log>>

----------------------------------------------------------------------------
\* start_server (main.rs 277-293)

\* load_server_config returns (main.rs 278)
LoadServerConfig(s) ==
    /\ Running /\ thr[s] = "load" /\ file[s].ok
    /\ cfg' = [cfg EXCEPT ![s] = file[s].config]
    /\ thr' = [thr EXCEPT ![s] = "bind"]
    /\ UNCHANGED <<call, toml, proc, main, file, pending, accepted, conn, log>>

\* load_server_config panics in the thread of the server (main.rs 66-69)
LoadServerConfigPanic(s) ==
    /\ Running /\ thr[s] = "load" /\ ~file[s].ok
    /\ thr' = [thr EXCEPT ![s] = "panicked"]
    /\ UNCHANGED <<call, toml, proc, main, file, cfg, pending, accepted, conn, log>>

\* TcpListener::bind succeeds (main.rs 280)
Bind(s) ==
    /\ Running /\ thr[s] = "bind"
    /\ thr' = [thr EXCEPT ![s] = "accept"]
    /\ UNCHANGED <<call, toml, proc, main, file, cfg, pending, accepted, conn, log>>

\* TcpListener::bind fails and expect panics (main.rs 280)
BindPanic(s) ==
    /\ Running /\ thr[s] = "bind"
    /\ thr' = [thr EXCEPT ![s] = "panicked"]
    /\ UNCHANGED <<call, toml, proc, main, file, cfg, pending, accepted, conn, log>>

\* the loop takes a connection only while no other server has one in flight
AcceptWhenOthersIdle(s) ==
    /\ Running /\ thr[s] = "accept" /\ pending[s] # <<>>
    /\ \A t \in Servers \ {s} : conn[t].id = 0
    /\ pending' = [pending EXCEPT ![s] = Tail(@)]
    /\ accepted' = [accepted EXCEPT ![s] = @ + 1]
    /\ conn' = [conn EXCEPT ![s] = [NoConn EXCEPT !.id = accepted[s] + 1,
                                                 !.client = Head(pending[s])]]
    /\ thr' = [thr EXCEPT ![s] = "read"]
    /\ UNCHANGED <<call, toml, proc, main, file, cfg, log>>

\* the loop takes the next connection while the handler of the previous one
\* has not printed its record yet
AcceptBeforeLogged(s) ==
    /\ Running /\ thr[s] \in {"accept", "log"} /\ pending[s] # <<>>
    /\ pending' = [pending EXCEPT ![s] = Tail(@)]
    /\ accepted' = [accepted EXCEPT ![s] = @ + 1]
    /\ conn' = [conn EXCEPT ![s] = [NoConn EXCEPT !.id = accepted[s] + 1,
                                                 !.client = Head(pending[s])]]
    /\ thr' = [thr EXCEPT ![s] = "read"]
    /\ UNCHANGED <<call, toml, proc, main, file, cfg, log>>

\* listener.incoming() yields a connection (main.rs 283-286)
Accept(s) ==
    /\ Running /\ thr[s] = "accept" /\ pending[s] # <<>>
    /\ pending' = [pending EXCEPT ![s] = Tail(@)]
    /\ accepted' = [accepted EXCEPT ![s] = @ + 1]
    /\ conn' = [conn EXCEPT ![s] = [NoConn EXCEPT !.id = accepted[s] + 1,
                                                 !.client = Head(pending[s])]]
    /\ thr' = [thr EXCEPT ![s] = "read"]
    /\ UNCHANGED <<call, toml, proc, main, file, cfg, log>>

\* listener.incoming() yields an error: it is printed and the loop goes on
\* (main.rs 288-290)
AcceptError(s) ==
    /\ Running /\ thr[s] = "accept"
    /\ UNCHANGED vars

\* the stream goes out of scope at the end of the loop body (main.rs 285-287)
Close(s) ==
    /\ Running /\ thr[s] = "close"
    /\ conn' = [conn EXCEPT ![s] = NoConn]
    /\ thr' = [thr EXCEPT ![s] = "accept"]
    /\ UNCHANGED <<call, toml, proc, main, file, cfg, pending, accepted, log>>

----------------------------------------------------------------------------
\* handle_client (main.rs 220-269)

LogRecord(c, path, status) == [id |-> c.id, path |-> path, status |-> status]

\* stream.read fails: one record, and the handler returns (main.rs 227-230)
ReadFail(s) ==
    /\ Running /\ thr[s] = "read"
    /\ conn' = [conn EXCEPT ![s].read = "err"]
    /\ log' = [log EXCEPT ![s] = Append(@, LogRecord(conn[s], <<"-">>, 400))]
    /\ thr' = [thr EXCEPT ![s] = "close"]
    /\ UNCHANGED <<call, toml, proc, main, file, cfg, pending, accepted>>

\* stream.read returns; request and path are computed (main.rs 226-234)
ReadOk(s) ==
    /\ Running /\ thr[s] = "read"
    /\ LET buffer == ZeroFilled(Take(conn[s].client, BufSize), BufSize) IN
       conn' = [conn EXCEPT ![s].read = "ok",
                            ![s].buffer = buffer,
                            ![s].request = from_utf8_lossy(buffer),
                            ![s].path = extract_path(buffer)]
    /\ thr' = [thr EXCEPT ![s] = "dispatch"]
    /\ UNCHANGED <<call, toml, proc, main, file, cfg, pending, accepted, log>>

\* the static section is used whenever it is present, whatever the type
DispatchStaticAnyType(s) ==
    /\ Running /\ thr[s] = "dispatch"
    /\ cfg[s].server_type # "proxy" /\ cfg[s].static_config.some
    /\ \E fs \in FileSystems :
          conn' = [conn EXCEPT ![s].opens = @ + 1,
                               ![s].response =
                                   handle_static_request(cfg[s].static_config.val,
                                                         conn[s].path, fs)]
    /\ thr' = [thr EXCEPT ![s] = "log"]
    /\ UNCHANGED <<call, toml, proc, main, file, cfg, pending, accepted, log>>

\* "static" with its section: handle_static_request (main.rs 237-239)
DispatchStatic(s) ==
    /\ Running /\ thr[s] = "dispatch"
    /\ cfg[s].server_type = "static" /\ cfg[s].static_config.some
    /\ \E fs \in FileSystems :
          conn' = [conn EXCEPT ![s].opens = @ + 1,
                               ![s].response =
                                   handle_static_request(cfg[s].static_config.val,
                                                         conn[s].path, fs)]
    /\ thr' = [thr EXCEPT ![s] = "log"]
    /\ UNCHANGED <<call, toml, proc, main, file, cfg, pending, accepted, log>>

\* "static" without its section, the section being filled in for the next
\* connections
DispatchStaticMissingFillsIn(s) ==
    /\ Running /\ thr[s] = "dispatch"
    /\ cfg[s].server_type = "static" /\ ~cfg[s].static_config.some
    /\ conn' = [conn EXCEPT ![s].response = Resp500NoStatic]
    /\ cfg' = [cfg EXCEPT ![s].static_config = Some(CHOOSE sc \in StaticConfigs : TRUE)]
    /\ thr' = [thr EXCEPT ![s] = "log"]
    /\ UNCHANGED <<call, toml, proc, main, file, pending, accepted, log>>

\* "static" without its section (main.rs 240)
DispatchStaticMissing(s) ==
    /\ Running /\ thr[s] = "dispatch"
    /\ cfg[s].server_type = "static" /\ ~cfg[s].static_config.some
    /\ conn' = [conn EXCEPT ![s].response = Resp500NoStatic]
    /\ thr' = [thr EXCEPT ![s] = "log"]
    /\ UNCHANGED <<call, toml, proc, main, file, cfg, pending, accepted, log>>

\* "proxy" without its section, the section being unwrapped
DispatchProxyMissingUnwrap(s) ==
    /\ Running /\ thr[s] = "dispatch"
    /\ cfg[s].server_type = "proxy" /\ ~cfg[s].proxy_config.some
    /\ thr' = [thr EXCEPT ![s] = "panicked"]
    /\ UNCHANGED <<call, toml, proc, main, file, cfg, pending, accepted, conn, log>>

\* "proxy" without its section (main.rs 246)
DispatchProxyMissing(s) ==
    /\ Running /\ thr[s] = "dispatch"
    /\ cfg[s].server_type = "proxy" /\ ~cfg[s].proxy_config.some
    /\ conn' = [conn EXCEPT ![s].response = Resp500NoProxy]
    /\ thr' = [thr EXCEPT ![s] = "log"]
    /\ UNCHANGED <<call, toml, proc, main, file, cfg, pending, accepted, log>>

\* any other type (main.rs 249)
DispatchOther(s) ==
    /\ Running /\ thr[s] = "dispatch"
    /\ cfg[s].server_type \notin {"static", "proxy"}
    /\ conn' = [conn EXCEPT ![s].response = Resp501]
    /\ thr' = [thr EXCEPT ![s] = "log"]
    /\ UNCHANGED <<call, toml, proc, main, file, cfg, pending, accepted, log>>

\* the status code is taken from the response and logged (main.rs 253-267)
Log(s) ==
    /\ Running /\ thr[s] = "log"
    /\ log' = [log EXCEPT ![s] =
                  Append(@, LogRecord(conn[s], conn[s].path, status_code(conn[s].response)))]
    /\ thr' = [thr EXCEPT ![s] = "send"]
    /\ UNCHANGED <<call, toml, proc, main, file, cfg, pending, accepted, conn>>

\* the lengths stream.write may report for a response: all of it, or a part
WriteLengths(response) == {Len(response)} \cup {n \in {1} : n < Len(response)}

\* send_response: one stream.write, its result dropped (main.rs 272-274)
Send(s) ==
    /\ Running /\ thr[s] = "send"
    /\ \/ conn' = [conn EXCEPT ![s].send = "err"]
       \/ \E n \in WriteLengths(conn[s].response) :
             conn' = [conn EXCEPT ![s].send = "ok",
                                  ![s].written = SubSeq(conn[s].response, 1, n)]
    /\ thr' = [thr EXCEPT ![s] = "close"]
    /\ UNCHANGED <<call, toml, proc, main, file, cfg, pending, accepted, log>>

----------------------------------------------------------------------------
\* handle_proxy_request (main.rs 134-217), entered from handle_client (main.rs 243-245)

IsProxyCall(s) ==
    /\ thr[s] = "dispatch"
    /\ cfg[s].server_type = "proxy" /\ cfg[s].proxy_config.some

\* the backend address does not parse: expect panics in the thread of the
\* server (main.rs 150)
ProxyAddrPanic(s) ==
    /\ Running /\ IsProxyCall(s)
    /\ ~socket_addr(cfg[s].proxy_config.val.backend).some
    /\ thr' = [thr EXCEPT ![s] = "panicked"]
    /\ UNCHANGED <<call, toml, proc, main, file, cfg, pending, accepted, conn, log>>

\* connect_timeout succeeds (main.rs 151-152)
ProxyConnect(s) ==
    /\ Running /\ IsProxyCall(s)
    /\ socket_addr(cfg[s].proxy_config.val.backend).some
    /\ conn' = [conn EXCEPT ![s].connects = @ + 1, ![s].backend = "connected"]
    /\ thr' = [thr EXCEPT ![s] = "backend_write"]
    /\ UNCHANGED <<call, toml, proc, main, file, cfg, pending, accepted, log>>

\* connect_timeout fails or times out (main.rs 213-215)
ProxyConnectFail(s) ==
    /\ Running /\ IsProxyCall(s)
    /\ socket_addr(cfg[s].proxy_config.val.backend).some
    /\ conn' = [conn EXCEPT ![s].connects = @ + 1, ![s].backend = "connect_failed",
                            ![s].response = Resp502]
    /\ thr' = [thr EXCEPT ![s] = "log"]
    /\ UNCHANGED <<call, toml, proc, main, file, cfg, pending, accepted, log>>

\* the request is rewritten and written to the backend (main.rs 154-172)
ProxyWrite(s) ==
    /\ Running /\ thr[s] = "backend_write"
    /\ conn' = [conn EXCEPT ![s].writes = @ + 1, ![s].backend = "written",
                            ![s].sent = ModifyHost(cfg[s].proxy_config.val, conn[s].request)]
    /\ thr' = [thr EXCEPT ![s] = "backend_read"]
    /\ UNCHANGED <<call, toml, proc, main, file, cfg, pending, accepted, log>>

\* the early return after a failed write is missing: the read still happens
ProxyWriteFailNoReturn(s) ==
    /\ Running /\ thr[s] = "backend_write"
    /\ conn' = [conn EXCEPT ![s].writes = @ + 1, ![s].backend = "write_failed"]
    /\ thr' = [thr EXCEPT ![s] = "backend_read"]
    /\ UNCHANGED <<call, toml, proc, main, file, cfg, pending, accepted, log>>

\* write_all fails (main.rs 172-174)
ProxyWriteFail(s) ==
    /\ Running /\ thr[s] = "backend_write"
    /\ conn' = [conn EXCEPT ![s].writes = @ + 1, ![s].backend = "write_failed",
                            ![s].response = Resp502]
    /\ thr' = [thr EXCEPT ![s] = "log"]
    /\ UNCHANGED <<call, toml, proc, main, file, cfg, pending, accepted, log>>

\* one read from the backend; the response is rewritten (main.rs 177-207)
ProxyRead(s) ==
    /\ Running /\ thr[s] = "backend_read"
    /\ \E data \in BackendData :
          conn' = [conn EXCEPT ![s].reads = @ + 1, ![s].backend = "read",
                               ![s].received = Take(data, RespBufSize),
                               ![s].response =
                                   ModifyServer(cfg[s].proxy_config.val,
                                                from_utf8_lossy(Take(data, RespBufSize)))]
    /\ thr' = [thr EXCEPT ![s] = "log"]
    /\ UNCHANGED <<call, toml, proc, main, file, cfg, pending, accepted, log>>

\* the read from the backend fails (main.rs 208-210)
ProxyReadFail(s) ==
    /\ Running /\ thr[s] = "backend_read"
    /\ conn' = [conn EXCEPT ![s].reads = @ + 1, ![s].backend = "read_failed",
                            ![s].response = Resp502]
    /\ thr' = [thr EXCEPT ![s] = "log"]
    /\ UNCHANGED <<call, toml, proc, main, file, cfg, pending, accepted, log>>

----------------------------------------------------------------------------
\* The server machine.

Next ==
    \/ MainLoadConfig
    \/ MainLoadConfigPanic
    \/ MainSpawn
    \/ MainJoinPanic
    \/ \E s \in Servers : LoadServerConfig(s)
    \/ \E s \in Servers : LoadServerConfigPanic(s)
    \/ \E s \in Servers : Bind(s)
    \/ \E s \in Servers : BindPanic(s)
    \/ \E s \in Servers : Accept(s)
    \/ \E s \in Servers : AcceptError(s)
    \/ \E s \in Servers : ReadFail(s)
    \/ \E s \in Servers : ReadOk(s)
    \/ \E s \in Servers : DispatchStatic(s)
    \/ \E s \in Servers : DispatchStaticMissing(s)
    \/ \E s \in Servers : DispatchProxyMissing(s)
    \/ \E s \in Servers : DispatchOther(s)
    \/ \E s \in Servers : ProxyAddrPanic(s)
    \/ \E s \in Servers : ProxyConnect(s)
    \/ \E s \in Servers : ProxyConnectFail(s)
    \/ \E s \in Servers : ProxyWrite(s)
    \/ \E s \in Servers : ProxyWriteFail(s)
    \/ \E s \in Servers : ProxyRead(s)
    \/ \E s \in Servers : ProxyReadFail(s)
    \/ \E s \in Servers : Log(s)
    \/ \E s \in Servers : Send(s)
    \/ \E s \in Servers : Close(s)

\* one server, any configuration
Spec == Init /\ [][Next]_vars

\* two servers side by side
SpecTwo == InitTwo /\ [][Next]_vars

----------------------------------------------------------------------------
\* The functions on their own: one call, its arguments drawn from bounded sets.

NoServers ==
    /\ toml = [ok |-> FALSE, servers |-> <<>>]
    /\ proc = "running"
    /\ main = [pc |-> "load_config", idx |-> 1]
    /\ thr = [s \in Servers |-> "unspawned"]
    /\ file = [s \in Servers |-> Unparsable]
    /\ cfg = [s \in Servers |-> NoConfig]
    /\ pending = [s \in Servers |-> <<>>]
    /\ accepted = [s \in Servers |-> 0]
    /\ conn = [s \in Servers |-> NoConn]
    /\ log = [s \in Servers |-> <<>>]

Calls(fn, argss) == {[fn |-> fn, args |-> a, done |-> FALSE, ret |-> <<>>] : a \in argss}

Return(fn, ret) ==
    /\ call.fn = fn /\ ~call.done
    /\ call' = [call EXCEPT !.done = TRUE, !.ret = ret]
    /\ UNCHANGED srvVars

Returned(fn) == call.fn = fn /\ call.done

\* extract_path on any buffer
PathBytes == {"G", SP, "/", TAB, NUL, BadByte}

InitPath == NoServers /\ call \in Calls("extract_path", {<<b>> : b \in SeqsUpTo(PathBytes, MaxBuf)})

CallExtractPath == Return("extract_path", extract_path(call.args[1]))

SpecPath == InitPath /\ [][CallExtractPath]_vars

\* the rewriting of the request on any text
RequestSymbols == {"Host:", "x", CR, LF}

HostConfigs == {pc \in ProxyConfigs : pc.backend = <<"localhost", ":", "8080">> /\ ~pc.modify_server}

InitHost ==
    /\ NoServers
    /\ call \in Calls("modify_host",
                      {<<pc, t>> : pc \in HostConfigs, t \in SeqsUpTo(RequestSymbols, MaxText)})

CallModifyHost == Return("modify_host", ModifyHost(call.args[1], call.args[2]))

SpecHost == InitHost /\ [][CallModifyHost]_vars

\* the rewriting of the response on any text
ResponseSymbols == {"Server:", "x", SP, CR, LF}

ServerHeaderConfigs ==
    {pc \in ProxyConfigs : pc.backend = <<"localhost", ":", "8080">> /\ ~pc.modify_host}

InitServerHeader ==
    /\ NoServers
    /\ call \in Calls("modify_server",
                      {<<pc, t>> : pc \in ServerHeaderConfigs,
                                   t \in SeqsUpTo(ResponseSymbols, MaxText)})

CallModifyServer == Return("modify_server", ModifyServer(call.args[1], call.args[2]))

SpecServerHeader == InitServerHeader /\ [][CallModifyServer]_vars

\* handle_static_request on any path and file system
PathSymbols == {"/", "index.html", "a"}

InitStatic ==
    /\ NoServers
    /\ call \in Calls("handle_static_request",
                      {<<sc, p, fs>> : sc \in StaticConfigs,
                                       p \in SeqsUpTo(PathSymbols, MaxPath),
                                       fs \in FileSystems})

CallHandleStatic ==
    Return("handle_static_request",
           handle_static_request(call.args[1], call.args[2], call.args[3]))

SpecStatic == InitStatic /\ [][CallHandleStatic]_vars

\* the backend address of any backend string
BackendPrefixes == {<<>>, <<"http://">>}

BackendHosts == {<<l>> : l \in IpLiterals} \cup Ip6Literals \cup {<<"localhost">>}

BackendPorts ==
    {<<>>, <<":">>, <<":", "8080">>, <<":", "80">>, <<":", "443">>, <<":", "x">>,
     <<":", "65536">>}

BackendStrings ==
    {p \o h \o q : p \in BackendPrefixes, h \in BackendHosts, q \in BackendPorts}

InitBackend == NoServers /\ call \in Calls("socket_addr", {<<b>> : b \in BackendStrings})

CallSocketAddr == Return("socket_addr", socket_addr(call.args[1]))

SpecBackend == InitBackend /\ [][CallSocketAddr]_vars

----------------------------------------------------------------------------
\* Properties of the server machine.

\* connection id of server s is over: the handler returned or was unwound
Finished(s, id) ==
    /\ id \in 1..accepted[s]
    /\ conn[s].id # id \/ thr[s] \in {"close", "panicked"}

\* the records server s has printed for connection id
RecordsOf(s, id) == {i \in 1..Len(log[s]) : log[s][i].id = id}

\* handle_client has computed the response of the connection in flight
Responded(s) == conn[s].id # 0 /\ conn[s].read = "ok" /\ thr[s] \in {"log", "send", "close"}

\* handle_client has printed the record of the connection in flight
Logged(s) == conn[s].id # 0 /\ thr[s] \in {"send", "close"}

LastRecord(s) == log[s][Len(log[s])]

\* the thread of server s died at startup, before any connection
StartupFailed(s) == thr[s] = "panicked" /\ conn[s].id = 0

\* server s has bound its port and entered the accept loop
Listening(s) == thr[s] \notin {"unspawned", "load", "bind"} /\ ~StartupFailed(s)

StatusTokens == {"200", "301", "404", "500", "501", "502"}

BeginsWithStatusLine(response) ==
    /\ Len(response) >= 3
    /\ response[1] \in {"HTTP/1.1", "HTTP/1.0"}
    /\ response[2] = SP
    /\ response[3] \in StatusTokens

\* C1: every connection handed to handle_client has exactly one access-log
\* record by the time it is finished, whatever the configuration and the
\* outcome of every I/O step; when the client read fails that record has
\* path "-" and status 400.
C1_ExactlyOneRecord ==
    \A s \in Servers :
        /\ \A id \in 1..accepted[s] : Finished(s, id) => Cardinality(RecordsOf(s, id)) = 1
        /\ (thr[s] = "close" /\ conn[s].read = "err") =>
              LastRecord(s) = [id |-> conn[s].id, path |-> <<"-">>, status |-> 400]

\* C2: no per-connection error stops a server: the thread of a server never
\* dies while it handles a connection, and every connection whose read
\* succeeded gets a response that begins with an HTTP status line.
C2_NoConnectionStopsServer ==
    \A s \in Servers :
        /\ thr[s] = "panicked" => conn[s].id = 0
        /\ (Logged(s) /\ conn[s].read = "ok") => BeginsWithStatusLine(conn[s].response)

\* C3: startup is fail-fast with no partial startup: when a server fails to
\* load its configuration or to bind its port, no other server has started
\* accepting connections.
C3_NoPartialStartup ==
    \A s, t \in Servers : (s # t /\ StartupFailed(s)) => ~Listening(t)

\* C4: a failed backend connect, write or read each yields exactly the
\* response "HTTP/1.1 502 Bad Gateway" with body "502 Bad Gateway", without
\* retry: at most one connect, one write and one read per request, and
\* nothing is attempted on the backend after the failure.
C4_BackendFailureIs502 ==
    \A s \in Servers :
        /\ conn[s].connects <= 1 /\ conn[s].writes <= 1 /\ conn[s].reads <= 1
        /\ conn[s].backend = "connect_failed" => conn[s].writes = 0 /\ conn[s].reads = 0
        /\ conn[s].backend = "write_failed" => conn[s].reads = 0
        /\ conn[s].backend \in {"connect_failed", "write_failed", "read_failed"} =>
              /\ thr[s] \in {"log", "send", "close"}
              /\ conn[s].response =
                    <<"HTTP/1.1", " ", "502", " ", "Bad Gateway", "\r", "\n", "\r", "\n",
                      "502", " ", "Bad Gateway">>

C4_Witness ==
    \E s \in Servers :
        /\ thr[s] = "close" /\ conn[s].backend = "read_failed"
        /\ conn[s].connects = 1 /\ conn[s].writes = 1 /\ conn[s].reads = 1
        /\ conn[s].id = 2

\* C5: with a type other than "static" and "proxy", whatever sections are
\* present, a connection whose read succeeded gets the 501 response, is logged
\* with status 501, and no file is opened and no backend connection is made.
C5_UnknownTypeIs501 ==
    \A s \in Servers :
        (conn[s].id # 0 /\ cfg[s].server_type \notin {"static", "proxy"}) =>
            /\ conn[s].opens = 0 /\ conn[s].connects = 0 /\ conn[s].backend = "none"
            /\ thr[s] \notin {"backend_write", "backend_read", "panicked"}
            /\ Responded(s) =>
                  /\ StartsWith(conn[s].response, <<"HTTP/1.1", " ", "501", " ", "Not Implemented">>)
                  /\ conn[s].response = Resp501
            /\ (Logged(s) /\ conn[s].read = "ok") =>
                  /\ LastRecord(s).id = conn[s].id
                  /\ LastRecord(s).status = 501

C5_Witness ==
    \E s \in Servers :
        /\ cfg[s].server_type = "fastcgi"
        /\ cfg[s].static_config.some /\ cfg[s].proxy_config.some
        /\ thr[s] = "close" /\ conn[s].read = "ok"
        /\ LastRecord(s).status = 501

\* the status code that the prefix of a response stands for
PrefixStatus(response) ==
    LET known == {"200", "404", "500", "501", "502"}
        value == [c \in known |->
                     IF c = "200" THEN 200 ELSE IF c = "404" THEN 404
                     ELSE IF c = "500" THEN 500 ELSE IF c = "501" THEN 501 ELSE 502]
        hit == {c \in known : Len(response) >= 3 /\ response[1] = "HTTP/1.1"
                                /\ response[2] = " " /\ response[3] = c}
    IN  IF hit = {} THEN 0 ELSE value[CHOOSE c \in hit : TRUE]

\* C6: the status logged for a connection whose read succeeded is decided by
\* the prefix of the response: the code after "HTTP/1.1 " when it is 200, 404,
\* 500, 501 or 502, and 0 for every other response; a record with status 400
\* is printed only for a failed read.
C6_StatusFromPrefix ==
    \A s \in Servers :
        Logged(s) =>
            /\ LastRecord(s).id = conn[s].id
            /\ conn[s].read = "ok" =>
                  /\ LastRecord(s).status = PrefixStatus(conn[s].response)
                  /\ LastRecord(s).status \in {0, 200, 404, 500, 501, 502}
            /\ LastRecord(s).status = 400 <=> conn[s].read = "err"

C6_Witness ==
    \E s \in Servers :
        /\ thr[s] = "close" /\ conn[s].read = "ok"
        /\ StartsWith(conn[s].response, <<"HTTP/1.1", " ", "301">>)
        /\ LastRecord(s).status = 0

----------------------------------------------------------------------------
\* Properties of the header rewriting.

RECURSIVE Concat(_)
Concat(ss) == IF ss = <<>> THEN <<>> ELSE Head(ss) \o Concat(Tail(ss))

\* the line terminator a piece of text ends with: "\r\n", "\n" or none
LineEnd(piece) ==
    IF Len(piece) >= 2 /\ piece[Len(piece) - 1] = "\r" /\ piece[Len(piece)] = "\n"
    THEN <<"\r", "\n">>
    ELSE IF Len(piece) >= 1 /\ piece[Len(piece)] = "\n" THEN <<"\n">>
    ELSE <<>>

\* the piece without its terminator
Content(piece) == SubSeq(piece, 1, Len(piece) - Len(LineEnd(piece)))

\* the text cut after every "\n": its lines, each with its terminator
RECURSIVE Pieces(_)
Pieces(text) ==
    IF text = <<>> THEN <<>>
    ELSE IF \E i \in 1..Len(text) : text[i] = "\n"
    THEN LET k == CHOOSE i \in 1..Len(text) :
                      text[i] = "\n" /\ \A j \in 1..(i - 1) : text[j] # "\n"
         IN  <<SubSeq(text, 1, k)>> \o Pieces(SubSeq(text, k + 1, Len(text)))
    ELSE <<text>>

IsHostLine(line) == Len(line) >= 1 /\ line[1] = "Host:"

NewHostLine(proxy_config) == <<"Host:", " ">> \o proxy_config.header_host

\* the request with every Host: line replaced and every terminator kept
HostReplacedKeepingEnds(proxy_config, request) ==
    LET ps == Pieces(request) IN
    Concat([i \in 1..Len(ps) |->
               (IF IsHostLine(Content(ps[i])) THEN NewHostLine(proxy_config)
                ELSE Content(ps[i])) \o LineEnd(ps[i])])

\* the request with every Host: line replaced, "\r\n" between the lines and
\* no terminator after the last line
HostReplacedCrlfBetween(proxy_config, request) ==
    LET ps == Pieces(request) IN
    Concat([i \in 1..Len(ps) |->
               (IF IsHostLine(Content(ps[i])) THEN NewHostLine(proxy_config)
                ELSE Content(ps[i])) \o (IF i < Len(ps) THEN <<"\r", "\n">> ELSE <<>>)])

\* C7 as stated: with modify_host set, the request sent to the backend is the
\* client request with every line beginning with "Host:" replaced by
\* "Host: " + header_host and every other line, with its line terminator,
\* byte-identical to the input.
C7_HostReplacedBytesKept ==
    (Returned("modify_host") /\ call.args[1].modify_host) =>
        call.ret = HostReplacedKeepingEnds(call.args[1], call.args[2])

\* C7 as amended: with modify_host set, every line beginning with "Host:" is
\* replaced by "Host: " + header_host, the content of every other line is
\* byte-identical to the input, the lines are separated by CRLF whatever
\* terminator the input used, and no terminator follows the last line.
C7_HostReplacedLinesKept ==
    (Returned("modify_host") /\ call.args[1].modify_host) =>
        call.ret = HostReplacedCrlfBetween(call.args[1], call.args[2])

C7_Witness ==
    /\ Returned("modify_host") /\ call.args[1].modify_host
    /\ call.args[2] = <<"x", "\n", "Host:", "x", "\n">>
    /\ call.ret = <<"x", "\r", "\n", "Host:", " ", "example.com">>

IsServerHeader(line) == Len(line) >= 1 /\ line[1] = "Server:"

\* the value of a Server: line: what follows "Server:", trimmed
RECURSIVE ServerValue(_)
ServerValue(line) ==
    IF IsServerHeader(line) THEN ServerValue(SubSeq(line, 2, Len(line))) ELSE Trim(line)

\* "Server: nextWeb(" + the value of the line + ")/0.1.0"
NewServerLine(line) == <<"Server:", " ", "nextWeb(">> \o ServerValue(line) \o <<")/0.1.0">>

\* the response with its first Server: line replaced, the other lines kept,
\* joined with CRLF
FirstServerReplaced(response) ==
    LET ps == Pieces(response)
        isFirst(i) == /\ IsServerHeader(Content(ps[i]))
                      /\ \A j \in 1..(i - 1) : ~IsServerHeader(Content(ps[j]))
    IN  Concat([i \in 1..Len(ps) |->
                   (IF isFirst(i) THEN NewServerLine(Content(ps[i])) ELSE Content(ps[i]))
                   \o (IF i < Len(ps) THEN <<"\r", "\n">> ELSE <<>>)])

\* C8: with modify_server set, only the first response line beginning with
\* "Server:" is replaced, by "Server: nextWeb(" + its trimmed value +
\* ")/0.1.0"; every other line, a later line beginning with "Server:"
\* included, is relayed unchanged (the lines are compared by content, joined
\* with CRLF as the responder joins them).
C8_OnlyFirstServerLine ==
    (Returned("modify_server") /\ call.args[1].modify_server) =>
        call.ret = FirstServerReplaced(call.args[2])

----------------------------------------------------------------------------
\* Properties of extract_path and handle_static_request.

\* the positions of the space bytes of a buffer
Spaces(buffer) == {i \in 1..Len(buffer) : buffer[i] = " "}

Least(S) == CHOOSE i \in S : \A j \in S : i <= j

\* C9: when the buffer holds at least two spaces, extract_path returns the
\* text strictly between the first and the second space, trimmed of
\* whitespace (empty when the two spaces are adjacent); with fewer than two
\* spaces it returns "/".
C9_PathBetweenSpaces ==
    Returned("extract_path") =>
        LET buffer == call.args[1]
            sp == Spaces(buffer)
        IN  IF Cardinality(sp) >= 2
            THEN LET i == Least(sp)
                     j == Least(sp \ {i})
                 IN  call.ret = Trim(from_utf8_lossy(SubSeq(buffer, i + 1, j - 1)))
            ELSE call.ret = <<"/">>

\* a buffer with zero padding whose path is trimmed to nothing
C9_Witness ==
    /\ Returned("extract_path")
    /\ call.args[1] = <<" ", "\t", " ", "NUL">>
    /\ call.ret = <<>>

\* what follows the first blank line of a response
BodyOf(response) ==
    LET ends == {i \in 4..Len(response) :
                    SubSeq(response, i - 3, i) = <<"\r", "\n", "\r", "\n">>}
    IN  IF ends = {} THEN <<>> ELSE SubSeq(response, Least(ends) + 1, Len(response))

\* C10: the file looked up is W + "/" + I for the path "/" and W + "/" + p
\* for any other path p, so "/" is served as "/" + I is; a file that opens
\* and reads gives "HTTP/1.1 200" with the file contents as body, a failed
\* open "HTTP/1.1 404", a failed read "HTTP/1.1 500".
C10_StaticResponse ==
    Returned("handle_static_request") =>
        LET sc == call.args[1]
            p == call.args[2]
            fs == call.args[3]
            found == Lookup(fs, sc.webroot \o <<"/">> \o (IF p = <<"/">> THEN sc.index ELSE p))
        IN  /\ found.kind = "text" =>
                  /\ StartsWith(call.ret, <<"HTTP/1.1", " ", "200">>)
                  /\ BodyOf(call.ret) = found.contents
            /\ found.kind = "absent" => StartsWith(call.ret, <<"HTTP/1.1", " ", "404">>)
            /\ found.kind = "unreadable" => StartsWith(call.ret, <<"HTTP/1.1", " ", "500">>)
            /\ p = <<"/">> => call.ret = handle_static_request(sc, <<"/">> \o sc.index, fs)

C10_Witness ==
    /\ Returned("handle_static_request")
    /\ call.args[2] = <<"/">>
    /\ StartsWith(call.ret, <<"HTTP/1.1", " ", "200">>)
    /\ BodyOf(call.ret) = <<"b2", "\n">>
    /\ call.args[3].files[<<"www", "/", "a">>].kind = "absent"

----------------------------------------------------------------------------
\* Order of the records of one server.

\* the ids of the records of server s, in the order they were printed
LogIds(s) == [i \in 1..Len(log[s]) |-> log[s][i].id]

\* the connection in flight on server s is in handle_client, up to the write
InHandler(s) ==
    thr[s] \in {"read", "dispatch", "backend_write", "backend_read", "log", "send"}

\* the step takes a connection of server s from the accept queue
Accepts(s) == accepted'[s] # accepted[s]

\* the step reads the request of the connection in flight on server s
Reads(s) == thr[s] = "read" /\ thr'[s] # "read"

\* handle_client of the connection in flight on server s has returned:
\* after the write, or after a failed read
Returned_handle_client(s) ==
    /\ thr[s] = "close"
    /\ conn[s].read = "err" \/ conn[s].send # "none"

\* C11: the records of a server are printed in the order its connections
\* were accepted: every connection accepted before another one has its
\* record printed before the later one is accepted, so before its request
\* is read; the next connection is accepted only when the handler of the
\* previous one has returned (its write is over) and the stream is closed;
\* this holds in every interleaving with the thread of the other server.
C11_RecordsInAcceptOrder ==
    /\ [](\A s \in Servers :
            /\ \A i, j \in 1..Len(log[s]) : i < j => log[s][i].id < log[s][j].id
            /\ \A id \in 1..accepted[s] :
                  id < accepted[s] => Cardinality(RecordsOf(s, id)) = 1
            /\ LogIds(s) \in {[i \in 1..n |-> i] : n \in 0..accepted[s]})
    /\ [][\A s \in Servers :
            /\ Accepts(s) =>
                  /\ thr[s] = "accept" /\ conn[s] = NoConn
                  /\ accepted'[s] = accepted[s] + 1
                  /\ Len(log[s]) = accepted[s]
            /\ Reads(s) => Len(log[s]) = conn[s].id - 1
            /\ (conn[s].id # 0 /\ conn'[s].id = 0) => Returned_handle_client(s)]_vars

\* the second connection of a server has its record after that of the first,
\* while the other server is in its accept loop
C11_Witness ==
    \E s, t \in Servers :
        /\ s # t /\ thr[t] = "accept"
        /\ LogIds(s) = <<1, 2>> /\ thr[s] = "close"

----------------------------------------------------------------------------
\* Steps of one connection.

\* the number of records server s has printed for the connection in flight
RecordsInFlight(s) == Cardinality(RecordsOf(s, conn[s].id))

\* nothing has been written to the client of the connection in flight
NothingWritten(s) == conn[s].send = "none" /\ conn[s].written = <<>>

\* C12: a connection goes through Accepted, Read, Dispatched, Logged, Written
\* and Closed in this order, no step skipped: it is never left anywhere
\* else; until Logged it has no record and nothing is written; at Written it
\* has its record and still nothing is written; at Closed it has its record
\* and the write was attempted, or its read failed and then it was never
\* dispatched (no file opened, no backend connection, no response) and
\* nothing was written.
C12_LinearOrder ==
    \A s \in Servers :
        conn[s].id # 0 =>
            /\ thr[s] \in {"read", "dispatch", "backend_write", "backend_read",
                           "log", "send", "close"}
            /\ thr[s] = "read" =>
                  /\ conn[s].read = "none" /\ conn[s].response = <<>>
                  /\ RecordsInFlight(s) = 0 /\ NothingWritten(s)
            /\ thr[s] \in {"dispatch", "backend_write", "backend_read", "log"} =>
                  /\ conn[s].read = "ok"
                  /\ RecordsInFlight(s) = 0 /\ NothingWritten(s)
            /\ thr[s] = "send" =>
                  /\ conn[s].read = "ok"
                  /\ RecordsInFlight(s) = 1 /\ NothingWritten(s)
                  /\ LastRecord(s).status = status_code(conn[s].response)
            /\ thr[s] = "close" =>
                  /\ RecordsInFlight(s) = 1
                  /\ conn[s].read = "ok" => conn[s].send # "none"
                  /\ conn[s].read = "err" =>
                        /\ LastRecord(s).status = 400
                        /\ conn[s].response = <<>> /\ NothingWritten(s)
                        /\ conn[s].opens = 0 /\ conn[s].connects = 0

----------------------------------------------------------------------------
\* A server whose type has no section.

\* the section that the type of the configuration needs is absent
MissingSection(c) ==
    \/ c.server_type = "static" /\ ~c.static_config.some
    \/ c.server_type = "proxy" /\ ~c.proxy_config.some

\* the response that names the missing section
MissingResponse(c) ==
    IF c.server_type = "static" THEN Resp500NoStatic ELSE Resp500NoProxy

\* the words of the body that name the missing section
MissingWords(c) ==
    IF c.server_type = "static" THEN "Static configuration is missing"
    ELSE "Proxy configuration is missing"

\* C13: a server of type "static" without static section, or of type "proxy"
\* without proxy section, answers every connection whose read succeeded with
\* a response that starts with "HTTP/1.1 500" and whose body names the
\* missing section, logs it with status 500, opens no file and connects to no
\* backend, whether or not the other section is present; its thread does not
\* die, so the next connection is accepted and handled the same way.
C13_MissingSectionIs500 ==
    \A s \in Servers :
        (Listening(s) /\ MissingSection(cfg[s])) =>
            /\ thr[s] \notin {"backend_write", "backend_read", "panicked"}
            /\ conn[s].opens = 0 /\ conn[s].connects = 0 /\ conn[s].backend = "none"
            /\ Responded(s) =>
                  /\ StartsWith(conn[s].response, <<"HTTP/1.1", " ", "500">>)
                  /\ conn[s].response = MissingResponse(cfg[s])
                  /\ BodyOf(conn[s].response)[Len(BodyOf(conn[s].response))]
                        = MissingWords(cfg[s])
            /\ (Logged(s) /\ conn[s].read = "ok") =>
                  /\ LastRecord(s).id = conn[s].id
                  /\ LastRecord(s).status = 500
            /\ (thr[s] = "accept" /\ pending[s] # <<>>) => ENABLED Accept(s)
            /\ \A i \in 1..Len(log[s]) : log[s][i].status \in {400, 500}

\* a "proxy" server without proxy section and with a static section has
\* answered two connections in a row with 500
C13_Witness ==
    \E s \in Servers :
        /\ cfg[s].server_type = "proxy"
        /\ ~cfg[s].proxy_config.some /\ cfg[s].static_config.some
        /\ thr[s] = "close" /\ conn[s].id = 2 /\ conn[s].send = "ok"
        /\ conn[s].response = Resp500NoProxy
        /\ [i \in 1..Len(log[s]) |-> log[s][i].status] = <<500, 500>>

----------------------------------------------------------------------------
\* The backend address.

\* the index of the last colon of s, 0 when it has none
LastColon(s) ==
    LET at == {i \in 1..Len(s) : s[i] = ":"} IN
    IF at = {} THEN 0 ELSE CHOOSE i \in at : \A j \in at : j <= i

\* host and port by the rule: one leading "http://" stripped, split at the
\* last colon, port 80 when there is no colon or the port is not a u16
HostPortLastColon(backend) ==
    LET url == IF StartsWith(backend, <<"http://">>) THEN SliceFrom(backend, 1) ELSE backend
        k == LastColon(url)
        host == IF k = 0 THEN url ELSE SubSeq(url, 1, k - 1)
        parsed == IF k = 0 THEN None ELSE ParseU16(SubSeq(url, k + 1, Len(url)))
    IN  [host |-> host, port |-> IF parsed.some THEN parsed.val ELSE 80]

\* C14: for every backend string, the address the outbound connection is made
\* to is the host and port obtained by stripping one optional leading
\* "http://", splitting on the last colon, and taking port 80 when there is
\* no colon or the port is not a u16.
C14_BackendTarget ==
    Returned("socket_addr") =>
        /\ call.ret.some
        /\ call.ret.val = HostPortLastColon(call.args[1])

----------------------------------------------------------------------------
\* What the proxy forwards.

\* handle_proxy_request has written the request to the backend
Forwarded(s) == conn[s].id # 0 /\ conn[s].backend \in {"written", "read", "read_failed"}

\* C15: where modify_host is unset, what is written to the backend is exactly
\* the bytes that the one read from the client returned, with nothing of the
\* rest of the buffer; where modify_server is unset, the response is exactly
\* the bytes that the one read from the backend returned.
C15_ForwardedUnmodified ==
    \A s \in Servers :
        /\ (Forwarded(s) /\ ~cfg[s].proxy_config.val.modify_host) =>
              conn[s].sent = Take(conn[s].client, BufSize)
        /\ (conn[s].id # 0 /\ conn[s].backend = "read"
                /\ ~cfg[s].proxy_config.val.modify_server) =>
              conn[s].response = conn[s].received

----------------------------------------------------------------------------
\* The write to the client.

\* C16: when the write to the client has not failed, the whole response has
\* been written by the time the connection is closed; when it has failed, the
\* connection still has exactly one record and the thread goes on to close
\* the stream and accept again.
C16_FullPayloadWritten ==
    \A s \in Servers :
        (conn[s].id # 0 /\ thr[s] = "close" /\ conn[s].read = "ok") =>
            /\ conn[s].send = "ok" => conn[s].written = conn[s].response
            /\ conn[s].send = "err" =>
                  /\ conn[s].written = <<>>
                  /\ RecordsInFlight(s) = 1
                  /\ Running => ENABLED Close(s)

----------------------------------------------------------------------------
\* One connection at a time in a server; servers side by side.

\* a step of the thread of server s that moves it on
ThreadStep(s) ==
    \/ LoadServerConfig(s) \/ LoadServerConfigPanic(s) \/ Bind(s) \/ BindPanic(s)
    \/ Accept(s) \/ ReadFail(s) \/ ReadOk(s)
    \/ DispatchStatic(s) \/ DispatchStaticMissing(s) \/ DispatchProxyMissing(s)
    \/ DispatchOther(s) \/ ProxyAddrPanic(s) \/ ProxyConnect(s) \/ ProxyConnectFail(s)
    \/ ProxyWrite(s) \/ ProxyWriteFail(s) \/ ProxyRead(s) \/ ProxyReadFail(s)
    \/ Log(s) \/ Send(s) \/ Close(s)

\* the connection in flight on server s waits for its client to send, or for
\* its backend to answer
Blocked(s) == thr[s] \in {"read", "backend_read"}

\* the thread of server s has something to do: it is alive, and a connection
\* waits for it when it is in accept
HasWork(s) ==
    /\ thr[s] \notin {"unspawned", "panicked"}
    /\ thr[s] = "accept" => pending[s] # <<>>

\* C17: a server has at most one connection in flight: while one is, no other
\* is accepted, and all accepted before it are closed and logged; a
\* connection that waits on its client or on a silent backend keeps the later
\* connections of its server in the queue, and it takes nothing from another
\* server: as long as the process runs, the thread of the other server can
\* take its next step, whichever it is (accept, handle, log, write).
C17_SerialAndIndependent ==
    \A s \in Servers :
        /\ accepted[s] <= Len(log[s]) + 1
        /\ conn[s].id # 0 =>
              /\ conn[s].id = accepted[s]
              /\ Len(log[s]) \in {accepted[s] - 1, accepted[s]}
              /\ ~ENABLED Accept(s)
        /\ conn[s].id = 0 => thr[s] \in {"unspawned", "load", "bind", "accept", "panicked"}
        /\ Blocked(s) =>
              \A t \in Servers \ {s} :
                  /\ (Running /\ HasWork(t)) => ENABLED ThreadStep(t)
                  /\ (Running /\ thr[t] = "accept" /\ pending[t] # <<>>) => ENABLED Accept(t)
                  /\ (Running /\ thr[t] = "log") => ENABLED Log(t)
                  /\ (Running /\ thr[t] = "send") => ENABLED Send(t)

\* a connection of one server waits on its silent backend, and the other
\* server has accepted, handled, logged and answered a connection of its own
C17_Witness ==
    \E s, t \in Servers :
        /\ s # t
        /\ thr[s] = "backend_read" /\ conn[s].reads = 0
        /\ thr[t] = "close" /\ conn[t].send = "ok" /\ Len(log[t]) = 1

----------------------------------------------------------------------------
\* Nothing is kept from one connection to the next.

\* the responses handle_client can compute from a configuration, the bytes
\* of a client and what the backend did (backend: the result of the last call
\* on it, received: the bytes read from it), over every file system
Responses(c, client, backend, received) ==
    LET buffer == ZeroFilled(Take(client, BufSize), BufSize)
        path == extract_path(buffer)
    IN  IF c.server_type = "static"
        THEN IF c.static_config.some
             THEN {handle_static_request(c.static_config.val, path, fs) : fs \in FileSystems}
             ELSE {Resp500NoStatic}
        ELSE IF c.server_type = "proxy"
        THEN IF c.proxy_config.some
             THEN IF backend = "read"
                  THEN {ModifyServer(c.proxy_config.val, from_utf8_lossy(received))}
                  ELSE {Resp502}
             ELSE {Resp500NoProxy}
        ELSE {Resp501}

\* C18: once a server has loaded its configuration, the configuration it
\* works with is the loaded one, after any number of connections, failed
\* ones included; the response of a connection is one that follows from the
\* configuration, the bytes of the client and the outcome of the file system
\* or backend alone, and its record holds the path and status that follow
\* from these bytes and this response, whatever the earlier connections of
\* this or another server were; a closed connection leaves nothing behind.
C18_NothingKept ==
    \A s \in Servers :
        /\ cfg[s] \in {NoConfig, file[s].config}
        /\ thr[s] \in {"bind", "accept"} \/ conn[s].id # 0 => cfg[s] = file[s].config
        /\ thr[s] = "accept" => conn[s] = NoConn
        /\ Responded(s) =>
              conn[s].response \in Responses(file[s].config, conn[s].client,
                                             conn[s].backend, conn[s].received)
        /\ (Logged(s) /\ conn[s].read = "ok") =>
              LastRecord(s) =
                  [id |-> conn[s].id,
                   path |-> extract_path(ZeroFilled(Take(conn[s].client, BufSize), BufSize)),
                   status |-> status_code(conn[s].response)]

\* the second connection of a server is answered and logged after a first
\* one whose read failed
C18_Witness ==
    \E s \in Servers :
        /\ thr[s] = "close" /\ conn[s].id = 2 /\ conn[s].read = "ok"
        /\ Len(log[s]) = 2 /\ log[s][1].status = 400 /\ log[s][2].status = 200

----------------------------------------------------------------------------
\* Every connection is served.

\* threads are scheduled fairly and every blocking call returns: a thread
\* that has a step to take takes one
SpecFair == Init /\ [][Next]_vars /\ \A s \in Servers : WF_vars(ThreadStep(s))

\* no server is a proxy whose backend address makes expect panic
NoAddrPanic ==
    \A s \in Servers :
        (file[s].ok /\ file[s].config.server_type = "proxy" /\ file[s].config.proxy_config.some)
            => socket_addr(file[s].config.proxy_config.val.backend).some

\* where no backend address panics, every connection in flight is closed and
\* the accept queue of every listening server is emptied (under SpecFair)
ServedWithoutPanic ==
    NoAddrPanic =>
        /\ (conn["s1"].id # 0) ~> (conn["s1"].id = 0)
        /\ (Listening("s1") /\ pending["s1"] # <<>>) ~> (pending["s1"] = <<>>)

\* C19: with every blocking call returning, no connection is left behind: as
\* long as a listening server has a connection in flight or one waiting in
\* its accept queue, its thread has a next step to take (so that, scheduled
\* fairly, it closes the one and accepts the other).
C19_NoConnectionLeftBehind ==
    \A s \in Servers :
        (Listening(s) /\ (conn[s].id # 0 \/ pending[s] # <<>>)) => ENABLED ThreadStep(s)

====
